---- MODULE Spec2Model ----
(***************************************************************************)
(* Wrapper feature selection (wrapper_feature_selection.py): the two       *)
(* search procedures of class FeatureSelection,                            *)
(*   sequential_feature_selection  (SFS / SBE with floating search) and    *)
(*   best_first_search             (open/closed list, compound operators), *)
(* and the set helper apply_operation_to_feature_set.                      *)
(*                                                                         *)
(* Scores are floats in the program; here they are integers (one unit is   *)
(* the resolution of the scoring function).  The evaluation function is    *)
(* the variable scorer: for every feature set, the set of scores it may    *)
(* return on it (one score: a deterministic function; several: a           *)
(* stochastic one, as k-fold cross-validation of a random forest is).      *)
(* Python iterates a set of small non-negative integers in ascending       *)
(* order (CPython: hash(i) = i, one slot per id), which IterOrder models.  *)
(***************************************************************************)
EXTENDS Integers, Sequences, FiniteSets

VARIABLES
    \* ---- the call and its arguments (never changed by the search)
    algo,                   \* "sequential" | "best_first" | "apply": the method called
    n_features,             \* X.shape[1]
    data,                   \* "ok" | "len_mismatch" (len(Y) # n_samples) | "bad_indices" (dtype)
    direction,              \* "forward" | "backward" | anything else
    do_floating_search,
    do_compound_operators,
    overshoot,
    epsilon,
    initial_feature_set,    \* None (<<>>) or <<set>>
    constant_feature_ids,   \* None (<<>>) or <<set>>
    feature_search_space,   \* None (<<>>) or <<set>>
    scorer,                 \* the evaluation function: feature set -> possible scores
    \* ---- control
    pc,                     \* "start" | "loop" | "float" | "compound" | "done" | "undone" |
                            \* "error" | "crash"
    ret,                    \* <<>> until the method returns, then <<sorted ids, score>>
    \* ---- locals of both searches
    best_not_changed_in,
    score_of_current_set,
    \* ---- locals of sequential_feature_selection
    current_features,
    remaining_features,
    overall_best,
    overall_best_score,
    just_modified_feature,
    iteration_parity,       \* parity of the "current best feature set" lines logged so far
    \* ---- locals of best_first_search
    open_list,
    open_scores,
    closed_list,
    best_set,
    score_of_best_set,
    next_node,
    new_children,
    new_scores,
    \* ---- observation of the evaluation collaborator
    calls,                  \* the calls of the last step: {<<searched set, set passed>>}
    eval_called,            \* whether the collaborator was ever called in this run
    highest_score_returned, \* the highest score the collaborator returned in this run
    adopted,                \* whether the last outer iteration took the adoption branch
    \* ---- set objects shared with the caller or between locals
    caller_sets,            \* the caller's three set arguments, as the caller holds them now
    initial_holders,        \* the locals that name the object initial_feature_set resolved to
    apply_effects,          \* the calls of apply_operation_to_feature_set of the last step
    \* ---- two calls of best_first_search compared
    optimum_adopted_at,     \* the outer iteration in which best_set became the optimum (0: none)
    previous_call,          \* None, or <<optimum_adopted_at of the call made before this one>>
    compound_round,         \* the compound candidates formed so far in this outer iteration
    \* ---- apply_operation_to_feature_set called on its own
    ops

cfgvars == <<algo, n_features, data, direction, do_floating_search, do_compound_operators,
             overshoot, epsilon, initial_feature_set, constant_feature_ids,
             feature_search_space, scorer>>
seqvars == <<current_features, remaining_features, overall_best, overall_best_score,
             just_modified_feature, iteration_parity>>
bfvars == <<open_list, open_scores, closed_list, best_set, score_of_best_set, next_node,
            new_children, new_scores>>
objvars == <<caller_sets, initial_holders>>
cmpvars == <<optimum_adopted_at, previous_call, compound_round>>
vars == <<cfgvars, pc, ret, best_not_changed_in, score_of_current_set, seqvars, bfvars,
          calls, eval_called, highest_score_returned, adopted, objvars, apply_effects,
          cmpvars, ops>>

-----------------------------------------------------------------------------
\* Bounds of the model

\* number of features of the data set X
MaxFeatures == 2
\* the evaluation function returns scores in 1..MaxScore
MaxScore == 3
\* overshoot ranges over 0..MaxOvershoot
MaxOvershoot == 1
\* epsilon ranges over 0..MaxEpsilon
MaxEpsilon == 2

\* Program constants

\* -9999999999.9, the score of an empty feature set and the start value of the
\* step phase's running best; scaled to fit TLC's integers, below every other score
SENTINEL == -1000000000
\* -99999.0, the start value of the float phase's running best
FLOAT_SENTINEL == -99999

Scores == 1..MaxScore
AllFeatures == 0..(n_features - 1)

\* Python's None, as an argument and as a feature id
None == <<>>
NoneId == -1
Some(S) == <<S>>

-----------------------------------------------------------------------------
\* Helpers modelling Python / numpy primitives

\* iteration order of a Python set of small non-negative ints; also np.sort(list(S))
\* (the k-th entry is the member with k - 1 members below it)
IterOrder(S) ==
    IF S = {} THEN <<>>
    ELSE [k \in 1..Cardinality(S) |->
            CHOOSE x \in S : Cardinality({y \in S : y < x}) = k - 1]

\* the last index holding the maximum
argmax_last(scores) ==
    CHOOSE i \in 1..Len(scores) :
        /\ \A j \in 1..Len(scores) : scores[j] <= scores[i]
        /\ \A j \in (i + 1)..Len(scores) : scores[j] < scores[i]

\* np.argmax: the first index holding the maximum (1-based here)
argmax(scores) ==
    CHOOSE i \in 1..Len(scores) :
        /\ \A j \in 1..Len(scores) : scores[j] <= scores[i]
        /\ \A j \in 1..(i - 1) : scores[j] < scores[i]

\* max over a non-empty set of scores
highest(S) == CHOOSE x \in S : \A y \in S : y <= x

\* list.pop(i): the list without its i-th entry
pop(list, i) == SubSeq(list, 1, i - 1) \o SubSeq(list, i + 1, Len(list))

\* x in list
InList(x, list) == \E k \in 1..Len(list) : list[k] = x

\* set.symmetric_difference
symmetric_difference(A, B) == (A \ B) \cup (B \ A)

-----------------------------------------------------------------------------
\* FeatureSelection.apply_operation_to_feature_set

\* the warning branches format the feature id with %d, which raises TypeError
\* for None; the two asserts raise for any other operation value
apply_raises(feature_set, feature_id, operation) ==
    \/ operation \notin {-1, 1}
    \/ /\ feature_id = NoneId
       /\ \/ operation = 1 /\ feature_id \in feature_set
          \/ operation = -1 /\ feature_id \notin feature_set

\* a toggle instead of an add: the feature is dropped when it is already present
apply_operation_toggles(feature_set, feature_id, operation) ==
    IF operation = 1
    THEN IF feature_id \in feature_set
         THEN feature_set \ {feature_id}
         ELSE feature_set \cup {feature_id}
    ELSE IF feature_id \notin feature_set
         THEN feature_set
         ELSE feature_set \ {feature_id}

\* a remove that leaves the set as it is
apply_operation_add_only(feature_set, feature_id, operation) ==
    IF operation = 1
    THEN IF feature_id \in feature_set
         THEN feature_set
         ELSE feature_set \cup {feature_id}
    ELSE feature_set

apply_operation_to_feature_set(feature_set, feature_id, operation) ==
    IF operation = 1
    THEN IF feature_id \in feature_set
         THEN feature_set
         ELSE feature_set \cup {feature_id}
    ELSE IF feature_id \notin feature_set
         THEN feature_set
         ELSE feature_set \ {feature_id}

\* the add or remove done on the object that was given
argument_after_in_place(feature_set, feature_id, operation) ==
    apply_operation_to_feature_set(feature_set, feature_id, operation)

\* the set object given to apply_operation_to_feature_set, after the call:
\* "feature_set = set(feature_set)" rebinds the parameter to a copy before the add
\* or remove, so the object given keeps its content
argument_after(feature_set, feature_id, operation) == feature_set

\* one call: the object given (by the name that holds it), its content before and
\* after the call, and the set returned
effect(object, feature_set, feature_id, operation) ==
    [object |-> object, before |-> feature_set,
     after |-> argument_after(feature_set, feature_id, operation),
     result |-> apply_operation_to_feature_set(feature_set, feature_id, operation)]

\* the content of an object after the first k calls that were given it, one per
\* id of ids; object_after: after all of them
RECURSIVE object_after_calls(_, _, _, _)
object_after_calls(content, ids, operation, k) ==
    IF k = 0 THEN content
    ELSE argument_after(object_after_calls(content, ids, operation, k - 1), ids[k], operation)

object_after(content, ids, operation) == object_after_calls(content, ids, operation, Len(ids))

-----------------------------------------------------------------------------
\* Resolution of the optional arguments and validation (both searches)

constant_ids == IF constant_feature_ids = None THEN {} ELSE constant_feature_ids[1]

search_space == IF feature_search_space = None THEN AllFeatures ELSE feature_search_space[1]

initial_set ==
    IF initial_feature_set # None THEN initial_feature_set[1]
    ELSE IF algo = "sequential" /\ direction # "forward" THEN AllFeatures
    ELSE {}

\* the checks without the last one (search space against constants)
sets_inconsistent_two_checks ==
    \/ initial_set \cap constant_ids # {}
    \/ search_space \cap initial_set # initial_set

\* the three consistency checks on the resolved sets
sets_inconsistent ==
    \/ initial_set \cap constant_ids # {}
    \/ search_space \cap initial_set # initial_set
    \/ search_space \cap constant_ids # {}

\* sequential_feature_selection raises before the search starts
seq_config_error ==
    \/ data = "len_mismatch"
    \/ data = "bad_indices"
    \/ direction \notin {"forward", "backward"}
    \/ sets_inconsistent

\* best_first_search raises before the search starts
bf_config_error ==
    \/ data = "len_mismatch"
    \/ data = "bad_indices"
    \/ sets_inconsistent

set_operation == IF direction = "forward" THEN 1 ELSE -1

\* the pool is changed by the operation of the step itself
floating_search_operation_as_step == set_operation

floating_search_operation == -set_operation

-----------------------------------------------------------------------------
\* The evaluation collaborator

\* the scores a batch of calls can return: one per candidate c, on the set passed(c)
\* (the one choice is written out when every call has a single possible score)
ScoreChoices(cands, passed(_)) ==
    IF \A c \in cands : Cardinality(scorer[passed(c)]) = 1
    THEN {[c \in cands |-> CHOOSE s \in scorer[passed(c)] : TRUE]}
    ELSE {sc \in [cands -> UNION {scorer[passed(c)] : c \in cands}] :
            \A c \in cands : sc[c] \in scorer[passed(c)]}

\* "if score > best_so_far: best = i" over the candidates in iteration order,
\* best_so_far starting at start: the first candidate holding the maximum, or
\* None when no candidate exceeds start
first_best(order, sc, start) ==
    LET good == {k \in 1..Len(order) : sc[order[k]] > start}
    IN  IF good = {} THEN NoneId
        ELSE order[CHOOSE k \in good :
                     /\ \A j \in good : sc[order[j]] <= sc[order[k]]
                     /\ \A j \in good : j < k => sc[order[j]] < sc[order[k]]]

-----------------------------------------------------------------------------
\* sequential_feature_selection

SeqStart ==
    /\ algo = "sequential"
    /\ pc = "start"
    /\ IF seq_config_error
       THEN /\ pc' = "error"
            /\ calls' = {}
            /\ UNCHANGED <<score_of_current_set, seqvars, eval_called,
                           highest_score_returned, initial_holders>>
       ELSE /\ \E s \in (IF initial_set = {} THEN {SENTINEL} ELSE scorer[initial_set]) :
                 /\ score_of_current_set' = s
                 /\ overall_best_score' = s
                 /\ highest_score_returned' = s
            /\ initial_holders' = {"current_features", "overall_best"}
            /\ calls' = IF initial_set = {} THEN {} ELSE {<<initial_set, initial_set>>}
            /\ eval_called' = (initial_set # {})
            /\ remaining_features' = IF direction = "forward"
                                     THEN search_space \ initial_set
                                     ELSE {}
            /\ current_features' = initial_set
            /\ overall_best' = initial_set
            /\ UNCHANGED <<just_modified_feature, iteration_parity>>
            /\ pc' = "loop"
    /\ apply_effects' = {}
    /\ UNCHANGED <<cfgvars, ret, best_not_changed_in, bfvars, adopted, caller_sets,
                   cmpvars, ops>>

\* end of an outer iteration: adopt the local result as overall best, or count a
\* non-improving iteration
\* an equal score is adopted too
seq_adopts_or_equal(score) == score >= (overall_best_score - epsilon)

seq_adopts(score) == score > (overall_best_score - epsilon)

\* best_now: the content of the object overall_best names; holders_now: the locals
\* that name the initial object, before the assignment to overall_best
SeqFinishIteration(score, features, best_now, holders_now) ==
    IF seq_adopts(score)
    THEN /\ overall_best_score' = score
         /\ best_not_changed_in' = 0
         /\ overall_best' = features \cup constant_ids
         /\ initial_holders' = holders_now \ {"overall_best"}
         /\ adopted' = TRUE
    ELSE /\ best_not_changed_in' = best_not_changed_in + 1
         /\ adopted' = FALSE
         /\ overall_best' = best_now
         /\ initial_holders' = holders_now
         /\ UNCHANGED overall_best_score

\* the float phase is entered whether or not floating search was asked for
enters_float_always_on(score, features, remaining) ==
    /\ score > overall_best_score
    /\ ~(direction = "forward" /\ Cardinality(features) < 2)
    /\ ~(direction = "backward" /\ Cardinality(remaining) < 2)

\* whether the float phase is entered after a step to (features, remaining) with score
enters_float(score, features, remaining) ==
    /\ score > overall_best_score
    /\ do_floating_search
    /\ ~(direction = "forward" /\ Cardinality(features) < 2)
    /\ ~(direction = "backward" /\ Cardinality(remaining) < 2)

\* the step phase of one outer iteration, and the end of the iteration when the
\* float phase is not entered
SeqStep ==
    /\ algo = "sequential"
    /\ pc = "loop"
    /\ best_not_changed_in <= overshoot
    /\ LET look_at == IF direction = "forward" THEN remaining_features ELSE current_features
           searched(i) == apply_operation_to_feature_set(current_features, i, set_operation)
           new_feature_set(i) == searched(i) \cup constant_ids
           cands == {i \in look_at : new_feature_set(i) # {}}
           order == IterOrder(cands)
           \* current_features names the initial object until the first step
           object == IF "current_features" \in initial_holders
                     THEN "initial_feature_set" ELSE "current_features"
       IN  \E sc \in ScoreChoices(cands, new_feature_set) :
             LET best_feat_to_modify == first_best(order, sc, SENTINEL)
                 given == IterOrder(look_at) \o (IF best_feat_to_modify = NoneId THEN <<>>
                                                 ELSE <<best_feat_to_modify>>)
                 object_now == object_after(current_features, given, set_operation)
                 best_now == IF {"current_features", "overall_best"} \subseteq initial_holders
                             THEN object_now ELSE overall_best
             IN  /\ calls' = {<<searched(i), new_feature_set(i)>> : i \in cands}
                 /\ eval_called' = (eval_called \/ cands # {})
                 /\ highest_score_returned' =
                        highest({highest_score_returned} \cup {sc[i] : i \in cands})
                 /\ iteration_parity' = 1 - iteration_parity
                 /\ caller_sets' = IF object = "initial_feature_set"
                                      /\ initial_feature_set # None
                                   THEN <<Some(object_now), caller_sets[2], caller_sets[3]>>
                                   ELSE caller_sets
                 /\ IF best_feat_to_modify = NoneId
                    THEN /\ UNCHANGED <<current_features, remaining_features,
                                        just_modified_feature, score_of_current_set>>
                         /\ apply_effects' =
                                {effect(object, current_features, i, set_operation) :
                                   i \in look_at}
                         /\ SeqFinishIteration(score_of_current_set, current_features,
                                               best_now, initial_holders)
                         /\ pc' = "loop"
                    ELSE LET rem == apply_operation_to_feature_set(
                                        remaining_features, best_feat_to_modify,
                                        floating_search_operation)
                             cur == apply_operation_to_feature_set(
                                        current_features, best_feat_to_modify, set_operation)
                             score == sc[best_feat_to_modify]
                             holders_now == initial_holders \ {"current_features"}
                         IN  /\ remaining_features' = rem
                             /\ current_features' = cur
                             /\ just_modified_feature' = best_feat_to_modify
                             /\ score_of_current_set' = score
                             /\ apply_effects' =
                                    {effect(object, current_features, i, set_operation) :
                                       i \in look_at}
                                    \cup {effect("remaining_features", remaining_features,
                                                 best_feat_to_modify,
                                                 floating_search_operation)}
                             /\ IF enters_float(score, cur, rem)
                                THEN /\ pc' = "float"
                                     /\ overall_best' = best_now
                                     /\ initial_holders' = holders_now
                                     /\ UNCHANGED <<overall_best_score,
                                                    best_not_changed_in, adopted>>
                                ELSE /\ SeqFinishIteration(score, cur, best_now, holders_now)
                                     /\ pc' = "loop"
    /\ UNCHANGED <<cfgvars, ret, bfvars, cmpvars, ops>>

\* every member of the pool is a candidate
float_look_at_whole_pool(pool) == pool

\* the ids a float round looks at: the pool without the id the step toggled
float_look_at(pool) == apply_operation_to_feature_set(pool, just_modified_feature, -1)

\* one round of the float phase, and the end of the outer iteration when the
\* float phase ends
SeqFloat ==
    /\ algo = "sequential"
    /\ pc = "float"
    /\ LET pool == IF direction = "forward" THEN current_features ELSE remaining_features
           look_at == float_look_at(pool)
           searched(i) == apply_operation_to_feature_set(
                              current_features, i, floating_search_operation)
           new_feature_set(i) == searched(i) \cup constant_ids
           cands == {i \in look_at : Cardinality(new_feature_set(i)) > 0}
           order == IterOrder(cands)
       IN  \E sc \in ScoreChoices(cands, new_feature_set) :
             LET best_feat_to_modify == first_best(order, sc, FLOAT_SENTINEL)
                 best_feat_to_modify_score ==
                     IF best_feat_to_modify = NoneId THEN FLOAT_SENTINEL
                     ELSE sc[best_feat_to_modify]
                 rem == apply_operation_to_feature_set(
                            remaining_features, best_feat_to_modify,
                            -floating_search_operation)
                 cur == apply_operation_to_feature_set(
                            current_features, best_feat_to_modify, floating_search_operation)
                 raises ==
                     \/ apply_raises(remaining_features, best_feat_to_modify,
                                     -floating_search_operation)
                     \/ apply_raises(current_features, best_feat_to_modify,
                                     floating_search_operation)
                 \* the calls that build look_at and the candidates
                 looked == {effect(IF direction = "forward" THEN "current_features"
                                   ELSE "remaining_features",
                                   pool, just_modified_feature, -1)}
                           \cup {effect("current_features", current_features, i,
                                        floating_search_operation) : i \in look_at}
             IN  /\ calls' = {<<searched(i), new_feature_set(i)>> : i \in cands}
                 /\ eval_called' = (eval_called \/ cands # {})
                 /\ highest_score_returned' =
                        highest({highest_score_returned} \cup {sc[i] : i \in cands})
                 /\ IF best_feat_to_modify_score > score_of_current_set
                    THEN IF raises
                         THEN /\ pc' = "crash"
                              /\ apply_effects' = looked
                              /\ UNCHANGED <<current_features, remaining_features,
                                             score_of_current_set, overall_best_score,
                                             overall_best, best_not_changed_in, adopted,
                                             initial_holders>>
                         ELSE /\ remaining_features' = rem
                              /\ current_features' = cur
                              /\ score_of_current_set' = best_feat_to_modify_score
                              /\ apply_effects' =
                                     looked \cup
                                     {effect("remaining_features", remaining_features,
                                             best_feat_to_modify,
                                             -floating_search_operation),
                                      effect("current_features", current_features,
                                             best_feat_to_modify,
                                             floating_search_operation)}
                              /\ IF \/ direction = "forward" /\ Cardinality(cur) < 1
                                    \/ direction = "backward" /\ Cardinality(rem) < 1
                                 THEN /\ SeqFinishIteration(best_feat_to_modify_score, cur,
                                                            overall_best, initial_holders)
                                      /\ pc' = "loop"
                                 ELSE /\ pc' = "float"
                                      /\ UNCHANGED <<overall_best_score, overall_best,
                                                     best_not_changed_in, adopted,
                                                     initial_holders>>
                    ELSE /\ UNCHANGED <<current_features, remaining_features,
                                        score_of_current_set>>
                         /\ apply_effects' = looked
                         /\ SeqFinishIteration(score_of_current_set, current_features,
                                               overall_best, initial_holders)
                         /\ pc' = "loop"
    /\ UNCHANGED <<cfgvars, ret, just_modified_feature, iteration_parity, bfvars,
                   caller_sets, cmpvars, ops>>

\* the while condition fails: return the sorted overall best set and its score
SeqReturn ==
    /\ algo = "sequential"
    /\ pc = "loop"
    /\ best_not_changed_in > overshoot
    /\ ret' = <<IterOrder(overall_best), overall_best_score>>
    /\ pc' = "done"
    /\ calls' = {}
    /\ apply_effects' = {}
    /\ UNCHANGED <<cfgvars, best_not_changed_in, score_of_current_set, seqvars, bfvars,
                   eval_called, highest_score_returned, adopted, objvars, cmpvars, ops>>

-----------------------------------------------------------------------------
\* best_first_search

\* every feature of the data set instead of the search space
features_not_in_node_all(node) == symmetric_difference(AllFeatures, node)

\* the features expand_node tries to add to node
features_not_in_node(node) == symmetric_difference(search_space, node)

\* the child of a removal is kept when it is empty, too
expand_node_keeps_empty(node, olist, clist) ==
    LET novel(child) == ~InList(child, olist) /\ ~InList(child, clist)
        rem_order == IterOrder(node)
        add_order == IterOrder(features_not_in_node(node))
        removed == [k \in 1..Len(rem_order) |-> node \ {rem_order[k]}]
        added == [k \in 1..Len(add_order) |-> node \cup {add_order[k]}]
    IN  SelectSeq(removed, novel) \o SelectSeq(added, novel)

\* children are compared with the open list only
expand_node_open_only(node, olist, clist) ==
    LET novel(child) == ~InList(child, olist)
        keep_removed(child) == novel(child) /\ Cardinality(child) > 0
        rem_order == IterOrder(node)
        add_order == IterOrder(features_not_in_node(node))
        removed == [k \in 1..Len(rem_order) |-> node \ {rem_order[k]}]
        added == [k \in 1..Len(add_order) |-> node \cup {add_order[k]}]
    IN  SelectSeq(removed, keep_removed) \o SelectSeq(added, novel)

\* expand_node: the children of node that are in neither list, removals first
expand_node(node, olist, clist) ==
    LET novel(child) == ~InList(child, olist) /\ ~InList(child, clist)
        keep_removed(child) == novel(child) /\ Cardinality(child) > 0
        rem_order == IterOrder(node)
        add_order == IterOrder(features_not_in_node(node))
        removed == [k \in 1..Len(rem_order) |-> node \ {rem_order[k]}]
        added == [k \in 1..Len(add_order) |-> node \cup {add_order[k]}]
    IN  SelectSeq(removed, keep_removed) \o SelectSeq(added, novel)

\* obtain_scores_of_children: the set passed for a child
child_passed(child) == child \cup constant_ids

\* the score lists obtain_scores_of_children can return for children
\* (the one list is written out when every call has a single possible score)
ChildScoreChoices(children) ==
    IF \A k \in 1..Len(children) : Cardinality(scorer[child_passed(children[k])]) = 1
    THEN {[k \in 1..Len(children) |->
             CHOOSE s \in scorer[child_passed(children[k])] : TRUE]}
    ELSE {sc \in [1..Len(children) ->
                    UNION {scorer[child_passed(children[k])] : k \in 1..Len(children)}] :
            \A k \in 1..Len(children) : sc[k] \in scorer[child_passed(children[k])]}

\* the set passed to the evaluation function for a compound child
compound_passed(compound_child) == compound_child

\* a list holds references: the list after the object with content state (by
\* lines 338, 345, 453 no two entries of the lists are equal) got content content
stored_after(list, state, content) ==
    [k \in 1..Len(list) |-> IF list[k] = state THEN content ELSE list[k]]

\* the toggle applied to the expanded node, which gives best_child again
compound_child_of_node(best, best_child, node) ==
    LET modified_feature == symmetric_difference(best_child, node)
        operation == IF Cardinality(best_child) < Cardinality(node) THEN -1 ELSE 1
    IN  apply_operation_to_feature_set(node, IterOrder(modified_feature)[1], operation)

\* the compound child: the toggle that led from node to best_child, applied to the
\* best set best
compound_child_of(best, best_child, node) ==
    LET modified_feature == symmetric_difference(best_child, node)
        operation == IF Cardinality(best_child) < Cardinality(node) THEN -1 ELSE 1
    IN  apply_operation_to_feature_set(best, IterOrder(modified_feature)[1], operation)

\* the sets on which the evaluation function reaches its highest score
top_sets ==
    LET all == UNION {scorer[S] : S \in DOMAIN scorer}
        TopScore == CHOOSE x \in all : \A y \in all : y <= x
    IN  {S \in DOMAIN scorer : TopScore \in scorer[S]}

\* the pairs of features that reach the top score and are part of every set that
\* does (one pair at most)
designated_pairs ==
    {P \in top_sets : Cardinality(P) = 2 /\ \A S \in top_sets : P \subseteq S}

\* the outer iteration in which the optimum became the best set, when new_best is
\* adopted in outer iteration number iteration
adopted_at(new_best, iteration) ==
    IF optimum_adopted_at = 0 /\ new_best \in designated_pairs
    THEN iteration ELSE optimum_adopted_at

\* whether a candidate's score makes it the new best set
bf_adopts(score) == score > (score_of_best_set + epsilon)

BFStart ==
    /\ algo = "best_first"
    /\ pc = "start"
    /\ IF bf_config_error
       THEN /\ pc' = "error"
            /\ calls' = {}
            /\ UNCHANGED <<score_of_current_set, bfvars, eval_called,
                           highest_score_returned, initial_holders>>
       ELSE /\ \E s \in (IF initial_set = {} THEN {SENTINEL} ELSE scorer[initial_set]) :
                 /\ score_of_current_set' = s
                 /\ open_scores' = <<s>>
                 /\ score_of_best_set' = s
                 /\ highest_score_returned' = s
            /\ initial_holders' = {"open_list", "best_set"}
            /\ calls' = IF initial_set = {} THEN {} ELSE {<<initial_set, initial_set>>}
            /\ eval_called' = (initial_set # {})
            /\ open_list' = <<initial_set>>
            /\ closed_list' = <<>>
            /\ best_set' = initial_set
            /\ UNCHANGED <<next_node, new_children, new_scores>>
            /\ pc' = "loop"
    /\ apply_effects' = {}
    /\ UNCHANGED <<cfgvars, ret, best_not_changed_in, seqvars, adopted, caller_sets,
                   cmpvars, ops>>

\* one outer iteration up to the compound loop: pick_next_node, expand_node,
\* obtain_scores_of_children, adoption of the best child
BFIterate ==
    /\ algo = "best_first"
    /\ pc = "loop"
    /\ best_not_changed_in <= overshoot
    /\ IF Len(open_scores) = 0
       THEN \* np.argmax of an empty list raises ValueError
            /\ pc' = "crash"
            /\ calls' = {}
            /\ UNCHANGED <<best_not_changed_in, bfvars, eval_called,
                           highest_score_returned, adopted,
                           initial_holders, optimum_adopted_at>>
       ELSE LET id_of_best_node == argmax(open_scores)
                node == open_list[id_of_best_node]
                olist == pop(open_list, id_of_best_node)
                oscores == pop(open_scores, id_of_best_node)
                clist == Append(closed_list, node)
                children == expand_node(node, olist, clist)
                \* the first pop moves the initial object to the closed list
                holders_now == IF "open_list" \in initial_holders
                               THEN (initial_holders \ {"open_list"}) \cup {"closed_list"}
                               ELSE initial_holders
            IN  \E scores \in ChildScoreChoices(children) :
                  /\ next_node' = node
                  /\ closed_list' = clist
                  /\ open_list' = olist \o children
                  /\ open_scores' = oscores \o scores
                  /\ calls' = {<<children[k], child_passed(children[k])>> :
                                 k \in 1..Len(children)}
                  /\ eval_called' = (eval_called \/ Len(children) > 0)
                  /\ highest_score_returned' =
                         highest({highest_score_returned}
                                 \cup {scores[k] : k \in 1..Len(children)})
                  /\ IF Len(scores) = 0
                     THEN /\ best_not_changed_in' = best_not_changed_in + 1
                          /\ adopted' = FALSE
                          /\ new_children' = children
                          /\ new_scores' = scores
                          /\ initial_holders' = holders_now
                          /\ UNCHANGED <<best_set, score_of_best_set, optimum_adopted_at>>
                          /\ pc' = "loop"
                     ELSE LET id_of_best_child == argmax(scores)
                          IN  IF bf_adopts(scores[id_of_best_child])
                              THEN /\ best_set' = children[id_of_best_child]
                                   /\ score_of_best_set' = scores[id_of_best_child]
                                   /\ new_children' = pop(children, id_of_best_child)
                                   /\ new_scores' = pop(scores, id_of_best_child)
                                   /\ best_not_changed_in' = 0
                                   /\ adopted' = TRUE
                                   /\ initial_holders' = holders_now \ {"best_set"}
                                   /\ optimum_adopted_at' =
                                          adopted_at(children[id_of_best_child], Len(clist))
                                   /\ pc' = IF do_compound_operators /\ Len(scores) > 1
                                            THEN "compound" ELSE "loop"
                              ELSE /\ best_not_changed_in' = best_not_changed_in + 1
                                   /\ adopted' = FALSE
                                   /\ new_children' = children
                                   /\ new_scores' = scores
                                   /\ initial_holders' = holders_now
                                   /\ UNCHANGED <<best_set, score_of_best_set,
                                                  optimum_adopted_at>>
                                   /\ pc' = "loop"
    /\ apply_effects' = {}
    /\ compound_round' = IF Len(open_scores) = 0 THEN compound_round ELSE 0
    /\ UNCHANGED <<cfgvars, ret, score_of_current_set, seqvars, caller_sets,
                   previous_call, ops>>

\* one round of the compound-operator loop
BFCompound ==
    /\ algo = "best_first"
    /\ pc = "compound"
    /\ LET id_of_best_child == argmax(new_scores)
           best_child == new_children[id_of_best_child]
           modified_feature == symmetric_difference(best_child, next_node)
           operation == IF Cardinality(best_child) < Cardinality(next_node) THEN -1 ELSE 1
           compound_child == compound_child_of(best_set, best_child, next_node)
           \* best_set names a state of the open or the closed list; that object after
           \* the call, and the two lists that hold it
           object_now == argument_after(best_set, IterOrder(modified_feature)[1], operation)
           olist == stored_after(open_list, best_set, object_now)
           clist == stored_after(closed_list, best_set, object_now)
       IN  /\ new_children' = pop(new_children, id_of_best_child)
           /\ new_scores' = pop(new_scores, id_of_best_child)
           /\ apply_effects' = {effect("best_set", best_set,
                                       IterOrder(modified_feature)[1], operation)}
           /\ closed_list' = clist
           /\ caller_sets' = IF "best_set" \in initial_holders /\ initial_feature_set # None
                             THEN <<Some(object_now), caller_sets[2], caller_sets[3]>>
                             ELSE caller_sets
           /\ IF \/ Cardinality(compound_child) < 1
                 \/ InList(compound_child, open_list)
                 \/ InList(compound_child, closed_list)
              THEN \* break
                   /\ calls' = {}
                   /\ open_list' = olist
                   /\ best_set' = object_now
                   /\ UNCHANGED <<open_scores, score_of_best_set, eval_called,
                                  highest_score_returned,
                                  optimum_adopted_at>>
                   /\ pc' = "loop"
              ELSE \E score_of_compound_child \in scorer[compound_passed(compound_child)] :
                     /\ calls' = {<<compound_child, compound_passed(compound_child)>>}
                     /\ eval_called' = TRUE
                     /\ highest_score_returned' =
                            highest({highest_score_returned, score_of_compound_child})
                     /\ open_list' = Append(olist, compound_child)
                     /\ open_scores' = Append(open_scores, score_of_compound_child)
                     /\ IF bf_adopts(score_of_compound_child)
                        THEN /\ best_set' = compound_child
                             /\ score_of_best_set' = score_of_compound_child
                             /\ optimum_adopted_at' =
                                    adopted_at(compound_child, Len(closed_list))
                             /\ pc' = IF Len(new_scores) > 1 THEN "compound" ELSE "loop"
                        ELSE /\ best_set' = object_now
                             /\ UNCHANGED <<score_of_best_set, optimum_adopted_at>>
                             /\ pc' = "loop"
    /\ compound_round' = compound_round + 1
    /\ UNCHANGED <<cfgvars, ret, best_not_changed_in, score_of_current_set, seqvars,
                   next_node, adopted, initial_holders, previous_call, ops>>

\* the while condition fails: return the sorted best set and its score
BFReturn ==
    /\ algo = "best_first"
    /\ pc = "loop"
    /\ best_not_changed_in > overshoot
    /\ ret' = <<IterOrder(best_set), score_of_best_set>>
    /\ pc' = "done"
    /\ calls' = {}
    /\ apply_effects' = {}
    /\ UNCHANGED <<cfgvars, best_not_changed_in, score_of_current_set, seqvars, bfvars,
                   eval_called, highest_score_returned, adopted, objvars, cmpvars, ops>>

-----------------------------------------------------------------------------
\* apply_operation_to_feature_set called on its own

ApplyCall ==
    /\ algo = "apply"
    /\ pc = "start"
    /\ IF apply_raises(ops.feature_set, ops.feature_id, ops.operation)
       THEN /\ pc' = "crash"
            /\ UNCHANGED <<ops, apply_effects>>
       ELSE /\ pc' = "done"
            /\ ops' = [ops EXCEPT !.result = apply_operation_to_feature_set(
                                                 ops.feature_set, ops.feature_id,
                                                 ops.operation)]
            /\ apply_effects' = {effect("feature_set", ops.feature_set, ops.feature_id,
                                        ops.operation)}
    /\ UNCHANGED <<cfgvars, ret, best_not_changed_in, score_of_current_set, seqvars,
                   bfvars, calls, eval_called, highest_score_returned, adopted, objvars, cmpvars>>

\* a second call, on the set the first call returned, with the same feature id and
\* the opposite operation
ApplyInverse ==
    /\ algo = "apply"
    /\ pc = "done"
    /\ IF apply_raises(ops.result, ops.feature_id, -ops.operation)
       THEN /\ pc' = "crash"
            /\ UNCHANGED <<ops, apply_effects>>
       ELSE /\ pc' = "undone"
            /\ ops' = [ops EXCEPT !.inverse = apply_operation_to_feature_set(
                                                  ops.result, ops.feature_id,
                                                  -ops.operation)]
            /\ apply_effects' = {effect("result", ops.result, ops.feature_id,
                                        -ops.operation)}
    /\ UNCHANGED <<cfgvars, ret, best_not_changed_in, score_of_current_set, seqvars,
                   bfvars, calls, eval_called, highest_score_returned, adopted, objvars, cmpvars>>

-----------------------------------------------------------------------------
\* Specifications

Features(n) == 0..(n - 1)

\* an optional set argument: None or a set of feature ids
OptionalSets(n) == {None} \cup {Some(S) : S \in SUBSET Features(n)}

\* the locals before the search assigns them
LocalsUnset ==
    /\ pc = "start"
    /\ ret = <<>>
    /\ best_not_changed_in = 0
    /\ score_of_current_set = SENTINEL
    /\ current_features = {}
    /\ remaining_features = {}
    /\ overall_best = {}
    /\ overall_best_score = SENTINEL
    /\ just_modified_feature = NoneId
    /\ iteration_parity = 0
    /\ open_list = <<>>
    /\ open_scores = <<>>
    /\ closed_list = <<>>
    /\ best_set = {}
    /\ score_of_best_set = SENTINEL
    /\ next_node = {}
    /\ new_children = <<>>
    /\ new_scores = <<>>
    /\ calls = {}
    /\ eval_called = FALSE
    /\ highest_score_returned = SENTINEL
    /\ adopted = FALSE
    /\ caller_sets = <<initial_feature_set, constant_feature_ids, feature_search_space>>
    /\ initial_holders = {}
    /\ apply_effects = {}
    /\ optimum_adopted_at = 0
    /\ compound_round = 0

NoApplyCall ==
    ops = [feature_set |-> {}, feature_id |-> 0, operation |-> 1, result |-> {},
           inverse |-> {}]

\* the argument triples <<initial_feature_set, constant_feature_ids,
\* feature_search_space>> of a call: all three given, or the two defaulted sets left
\* out and the constants given or left out
ArgTriples(n) ==
    (({Some(S) : S \in SUBSET Features(n)} \X {Some(S) : S \in SUBSET Features(n)})
        \X {Some(S) : S \in SUBSET Features(n)})
    \cup {<<<<None, c>>, None>> : c \in OptionalSets(n)}

\* a call of either search with any arguments; the options a rejected call never
\* reads are left at one value
Init ==
    /\ n_features = MaxFeatures
    /\ algo \in {"sequential", "best_first"}
    /\ data \in {"ok", "len_mismatch", "bad_indices"}
    /\ direction \in {"forward", "backward", "sideways"}
    /\ algo = "best_first" => direction = "forward"
    /\ \E args \in ArgTriples(MaxFeatures) :
         /\ initial_feature_set = args[1][1]
         /\ constant_feature_ids = args[1][2]
         /\ feature_search_space = args[2]
    /\ do_floating_search \in BOOLEAN
    /\ do_compound_operators \in BOOLEAN
    /\ overshoot \in {0, MaxOvershoot}
    /\ epsilon \in {0, MaxEpsilon}
    /\ algo = "sequential" => ~do_compound_operators
    /\ algo = "best_first" => do_floating_search
    /\ (data # "ok" \/ direction = "sideways" \/ sets_inconsistent) =>
           do_floating_search /\ ~do_compound_operators /\ overshoot = 0 /\ epsilon = 0
    /\ scorer = [S \in SUBSET Features(MaxFeatures) |-> Scores]
    /\ LocalsUnset
    /\ previous_call = None
    /\ NoApplyCall

Next ==
    \/ SeqStart
    \/ SeqStep
    \/ SeqFloat
    \/ SeqReturn
    \/ BFStart
    \/ BFIterate
    \/ BFCompound
    \/ BFReturn

Spec == Init /\ [][Next]_vars

\* ---- deterministic evaluation functions, sequential search only, with the loop
\* of the method running as long as it can

SeqNext ==
    \/ SeqStart
    \/ SeqStep
    \/ SeqFloat
    \/ SeqReturn

\* the evaluation function that returns score_of[S] on S
Deterministic(score_of) == [S \in DOMAIN score_of |-> {score_of[S]}]

\* a valid call of sequential_feature_selection with a deterministic evaluation function
InitSeqDet ==
    /\ n_features = MaxFeatures
    /\ algo = "sequential"
    /\ data = "ok"
    /\ direction \in {"forward", "backward"}
    /\ \E i \in SUBSET Features(MaxFeatures), c \in SUBSET Features(MaxFeatures),
          f \in SUBSET Features(MaxFeatures) :
         /\ initial_feature_set = Some(i)
         /\ constant_feature_ids = Some(c)
         /\ feature_search_space = Some(f)
    /\ ~sets_inconsistent
    /\ do_floating_search \in BOOLEAN
    /\ do_compound_operators = FALSE
    /\ overshoot \in {0, MaxOvershoot}
    /\ epsilon \in {0, MaxEpsilon}
    /\ scorer \in {Deterministic(score_of) :
                     score_of \in [SUBSET Features(MaxFeatures) -> Scores]}
    /\ LocalsUnset
    /\ previous_call = None
    /\ NoApplyCall

FairSeqSpec == InitSeqDet /\ [][SeqNext]_vars /\ WF_vars(SeqNext)

\* ---- either search, called with consistent sets, epsilon 0 and a deterministic
\* evaluation function

InitDet ==
    /\ n_features = MaxFeatures
    /\ algo \in {"sequential", "best_first"}
    /\ data = "ok"
    /\ direction \in {"forward", "backward"}
    /\ algo = "best_first" => direction = "forward"
    /\ \E i \in SUBSET Features(MaxFeatures), c \in SUBSET Features(MaxFeatures),
          f \in SUBSET Features(MaxFeatures) :
         /\ initial_feature_set = Some(i)
         /\ constant_feature_ids = Some(c)
         /\ feature_search_space = Some(f)
    /\ ~sets_inconsistent
    /\ do_floating_search \in BOOLEAN
    /\ do_compound_operators \in BOOLEAN
    /\ algo = "sequential" => ~do_compound_operators
    /\ algo = "best_first" => do_floating_search
    /\ overshoot \in {0, MaxOvershoot}
    /\ epsilon = 0
    /\ scorer \in {Deterministic(score_of) :
                     score_of \in [SUBSET Features(MaxFeatures) -> Scores]}
    /\ LocalsUnset
    /\ previous_call = None
    /\ NoApplyCall

DetSpec == InitDet /\ [][Next]_vars

\* ---- sequential search with floating search on FloatFeatures features, with the
\* default sets, with the last feature constant, or from all features but the
\* last, any evaluation function

FloatFeatures == 3

InitFloat ==
    /\ n_features = FloatFeatures
    /\ algo = "sequential"
    /\ data = "ok"
    /\ direction \in {"forward", "backward"}
    /\ \/ /\ initial_feature_set = None
          /\ constant_feature_ids = None
          /\ feature_search_space = None
       \/ /\ initial_feature_set = Some(IF direction = "forward" THEN {}
                                         ELSE Features(FloatFeatures - 1))
          /\ constant_feature_ids = Some({FloatFeatures - 1})
          /\ feature_search_space = Some(Features(FloatFeatures - 1))
       \/ /\ initial_feature_set = Some(Features(FloatFeatures - 1))
          /\ constant_feature_ids = None
          /\ feature_search_space = None
    /\ do_floating_search \in BOOLEAN
    /\ do_compound_operators = FALSE
    /\ overshoot \in {0, MaxOvershoot}
    /\ epsilon \in {0, MaxEpsilon}
    /\ scorer = [S \in SUBSET Features(FloatFeatures) |-> Scores]
    /\ LocalsUnset
    /\ previous_call = None
    /\ NoApplyCall

FloatSpec == InitFloat /\ [][SeqNext]_vars /\ WF_vars(SeqNext)

\* ---- one informative feature: forward selection from the empty set and backward
\* elimination with the default settings, on a deterministic evaluation function
\* that is an accuracy plus a penalty on the size of the set

\* the data set has ScenarioFeatures features, of which DesignatedFeature decides
\* the label; forward selection runs with overshoot ScenarioOvershoot
ScenarioFeatures == 5
DesignatedFeature == 2
ScenarioOvershoot == 2
\* the accuracy of a set with the designated feature is 0..MaxGap above the least
\* one that keeps such a set above every set without it
MaxGap == 1
\* the default of overshoot
DefaultOvershoot == 3

\* accuracy (high with the designated feature, one unit more with the feature
\* lucky, which is noise) plus two units of penalty for every feature
size_penalty_score(S, n, gap, lucky) ==
    1 + (IF DesignatedFeature \in S THEN 2 * n + gap ELSE 0)
      + (IF lucky \in S THEN 1 ELSE 0)
      + 2 * (n - Cardinality(S))

InitScenario ==
    /\ n_features = ScenarioFeatures
    /\ algo = "sequential"
    /\ data = "ok"
    /\ direction \in {"forward", "backward"}
    /\ initial_feature_set \in (IF direction = "forward" THEN {None, Some({})} ELSE {None})
    /\ constant_feature_ids = None
    /\ feature_search_space = None
    /\ do_floating_search = TRUE
    /\ do_compound_operators = FALSE
    /\ overshoot = IF direction = "forward" THEN ScenarioOvershoot ELSE DefaultOvershoot
    /\ epsilon = 0
    /\ \E gap \in 0..MaxGap, lucky \in (Features(ScenarioFeatures) \ {DesignatedFeature})
                                       \cup {NoneId} :
         scorer = Deterministic([S \in SUBSET Features(ScenarioFeatures) |->
                                    size_penalty_score(S, ScenarioFeatures, gap, lucky)])
    /\ LocalsUnset
    /\ previous_call = None
    /\ NoApplyCall

ScenarioSpec == InitScenario /\ [][SeqNext]_vars /\ WF_vars(SeqNext)

\* ---- two features that are informative together: best_first_search from the
\* empty set without compound operators, then the same call with them, on the same
\* deterministic evaluation function

\* the data set has CompoundFeatures features
CompoundFeatures == 3

\* the pair reaches the top score MaxScore (its supersets too when supersets_top);
\* a single feature f scores single_score[f], every other set other
joint_score(S, pair, single_score, other, supersets_top) ==
    IF pair \subseteq S
    THEN IF S = pair \/ supersets_top THEN MaxScore ELSE other
    ELSE IF Cardinality(S) = 1 THEN single_score[CHOOSE f \in S : TRUE]
    ELSE other

InitCompound ==
    /\ n_features = CompoundFeatures
    /\ algo = "best_first"
    /\ data = "ok"
    /\ direction = "forward"
    /\ initial_feature_set = None
    /\ constant_feature_ids = None
    /\ feature_search_space = None
    /\ do_floating_search = TRUE
    /\ do_compound_operators = FALSE
    /\ overshoot \in {0, MaxOvershoot}
    /\ epsilon = 0
    /\ \E pair \in {P \in SUBSET Features(CompoundFeatures) : Cardinality(P) = 2},
          single_score \in [Features(CompoundFeatures) -> 1..(MaxScore - 1)],
          other \in 1..(MaxScore - 1), supersets_top \in BOOLEAN :
         scorer = Deterministic([S \in SUBSET Features(CompoundFeatures) |->
                     joint_score(S, pair, single_score, other, supersets_top)])
    /\ LocalsUnset
    /\ previous_call = None
    /\ NoApplyCall

\* the call without compound operators has ended (it returned, or raised): the same
\* call is made with do_compound_operators = True
BFCallAgain ==
    /\ algo = "best_first"
    /\ pc \in {"done", "crash"}
    /\ ~do_compound_operators
    /\ previous_call = None
    /\ previous_call' = Some(optimum_adopted_at)
    /\ do_compound_operators' = TRUE
    /\ UNCHANGED <<algo, n_features, data, direction, do_floating_search, overshoot,
                   epsilon, initial_feature_set, constant_feature_ids,
                   feature_search_space, scorer, caller_sets, ops>>
    \* the locals of the new call, as LocalsUnset has them
    /\ pc' = "start"
    /\ ret' = <<>>
    /\ best_not_changed_in' = 0
    /\ score_of_current_set' = SENTINEL
    /\ current_features' = {}
    /\ remaining_features' = {}
    /\ overall_best' = {}
    /\ overall_best_score' = SENTINEL
    /\ just_modified_feature' = NoneId
    /\ iteration_parity' = 0
    /\ open_list' = <<>>
    /\ open_scores' = <<>>
    /\ closed_list' = <<>>
    /\ best_set' = {}
    /\ score_of_best_set' = SENTINEL
    /\ next_node' = {}
    /\ new_children' = <<>>
    /\ new_scores' = <<>>
    /\ calls' = {}
    /\ eval_called' = FALSE
    /\ highest_score_returned' = SENTINEL
    /\ adopted' = FALSE
    /\ initial_holders' = {}
    /\ apply_effects' = {}
    /\ optimum_adopted_at' = 0
    /\ compound_round' = 0

CompoundNext ==
    \/ BFStart
    \/ BFIterate
    \/ BFCompound
    \/ BFReturn
    \/ BFCallAgain

CompoundSpec == InitCompound /\ [][CompoundNext]_vars

\* ---- apply_operation_to_feature_set on its own

\* feature ids 0..MaxId, the last of them in no set
MaxId == 3

InitApply ==
    /\ n_features = MaxFeatures
    /\ algo = "apply"
    /\ data = "ok"
    /\ direction = "forward"
    /\ do_floating_search = TRUE
    /\ do_compound_operators = FALSE
    /\ overshoot = 0
    /\ epsilon = 0
    /\ initial_feature_set = None
    /\ constant_feature_ids = None
    /\ feature_search_space = None
    /\ scorer = [S \in SUBSET Features(MaxFeatures) |-> Scores]
    /\ LocalsUnset
    /\ previous_call = None
    /\ \E S \in SUBSET Features(MaxId), f \in 0..MaxId, op \in {-1, 0, 1} :
         ops = [feature_set |-> S, feature_id |-> f, operation |-> op, result |-> {},
                inverse |-> {}]

ApplyNext ==
    \/ ApplyCall
    \/ ApplyInverse

SpecApply == InitApply /\ [][ApplyNext]_vars

-----------------------------------------------------------------------------
\* Properties

\* the ids of the returned array
Returned == {ret[1][k] : k \in 1..Len(ret[1])}

\* a step that ends an outer iteration's update of best_not_changed_in
CounterUpdated ==
    \/ algo = "sequential" /\ pc \in {"loop", "float"} /\ pc' = "loop"
    \/ algo = "best_first" /\ pc = "loop" /\ pc' \in {"loop", "compound"}

\* C1: whenever either search returns (here: from a non-empty search space), the
\* returned feature set contains every constant feature id.
C1_ConstantsPreserved ==
    (pc = "done" /\ search_space # {}) => constant_ids \subseteq Returned

\* C2: best_first_search never ends by an exception once validation has passed: the
\* open list is non-empty whenever an outer iteration starts (here: for search
\* spaces of one feature or more).
C2_BestFirstNeverRaises ==
    (algo = "best_first" /\ search_space # {}) =>
        /\ pc # "crash"
        /\ (pc = "loop" /\ best_not_changed_in <= overshoot) => Len(open_list) > 0

\* C3: with a deterministic evaluation function, a validated call of
\* sequential_feature_selection (here: on a non-empty search space) eventually
\* returns.
C3_SequentialTerminates == (search_space # {}) => <>(pc = "done")

\* C4: the recorded best score (overall_best_score, score_of_best_set) never
\* decreases.
C4_BestScoreMonotone ==
    [][/\ overall_best_score' >= overall_best_score
       /\ score_of_best_set' >= score_of_best_set]_vars

\* C5: sequential_feature_selection adopts a new overall best (and resets the
\* counter) only when the local score exceeds the overall best score by more than
\* epsilon.
C5_EpsilonIsMinimumImprovement ==
    [][(algo = "sequential" /\ search_space # {} /\ CounterUpdated /\ adopted')
          => score_of_current_set' > overall_best_score + epsilon]_vars

\* C6: every set passed to the evaluation function is the searched set united with
\* the constant feature ids.
C6_EvaluatedWithConstants == \A c \in calls : c[2] = c[1] \cup constant_ids

\* C7: a call whose sets violate one of the three relations, whose labels do not
\* match the samples, or (sequential) whose direction is unknown, ends in a
\* configuration error with no call of the evaluation function.
C7_Invalid ==
    \/ initial_set \cap constant_ids # {}
    \/ ~(initial_set \subseteq search_space)
    \/ search_space \cap constant_ids # {}
    \/ data = "len_mismatch"
    \/ algo = "sequential" /\ direction \notin {"forward", "backward"}

C7_InvalidConfigurationRaisesFirst ==
    (algo \in {"sequential", "best_first"} /\ pc # "start" /\ C7_Invalid)
        => (pc = "error" /\ ~eval_called /\ calls = {})

\* a rejected call whose non-empty initial set would have been scored first
C7_Witness ==
    /\ pc = "error"
    /\ initial_set # {}
    /\ search_space \cap constant_ids # {}
    /\ data = "ok"

\* C8: every id of a returned feature set is in the search space or a constant.
C8_ResultContained == pc = "done" => Returned \subseteq (search_space \cup constant_ids)

\* a best-first search that returns a set it found, with features outside the
\* search space and the constants
C8_Witness ==
    /\ pc = "done"
    /\ algo = "best_first"
    /\ Returned # initial_set
    /\ Returned # {}
    /\ (search_space \cup constant_ids) # AllFeatures

\* C9: the counter is 0 after an outer iteration that adopts and one more after
\* any other, changes nowhere else, stays within 0..overshoot+1, and the search
\* stops exactly when it exceeds overshoot.
C9_CounterDiscipline ==
    [][/\ CounterUpdated =>
            best_not_changed_in' = IF adopted' THEN 0 ELSE best_not_changed_in + 1
       /\ ~CounterUpdated => best_not_changed_in' = best_not_changed_in
       /\ best_not_changed_in' \in 0..(overshoot + 1)
       /\ (algo \in {"sequential", "best_first"} /\ search_space # {}
              /\ pc' \in {"done", "crash"})
             => best_not_changed_in' = overshoot + 1]_vars

\* C10: adding a feature that is in the set, or removing one that is not, returns
\* a set equal to the given one and raises nothing.
C10_IdempotentToggle ==
    (/\ algo = "apply"
     /\ pc # "start"
     /\ \/ ops.operation = 1 /\ ops.feature_id \in ops.feature_set
        \/ ops.operation = -1 /\ ops.feature_id \notin ops.feature_set)
        => (pc \in {"done", "undone"} /\ ops.result = ops.feature_set)

\* an add of a feature already in a set of several features has been applied
C10_Witness ==
    /\ algo = "apply"
    /\ pc = "done"
    /\ ops.operation = 1
    /\ ops.feature_id \in ops.feature_set
    /\ Cardinality(ops.feature_set) >= 2

\* C11: for a feature f not in S, removing f from the set that adding f to S
\* returned gives a set equal to S.
C11_ToggleRoundTrip ==
    (/\ algo = "apply"
     /\ pc = "undone"
     /\ ops.operation = 1
     /\ ops.feature_id \notin ops.feature_set)
        => ops.inverse = ops.feature_set

\* a feature has been added to a non-empty set without it and removed again
C11_Witness ==
    /\ algo = "apply"
    /\ pc = "undone"
    /\ ops.operation = 1
    /\ ops.feature_id \notin ops.feature_set
    /\ ops.feature_set # {}
    /\ ops.result = ops.feature_set \cup {ops.feature_id}

\* C12: no call of apply_operation_to_feature_set changes the set object it is
\* given; the caller's initial_feature_set, constant_feature_ids and
\* feature_search_space stay as they were given; a state in the closed list stays
\* as it is, a state in the open list stays as it is until it moves to the closed
\* list, and the overall best set changes only when a new one is adopted.
C12_CopyOnWrite ==
    [][/\ \A e \in apply_effects' : e.after = e.before
       /\ caller_sets' = <<initial_feature_set, constant_feature_ids, feature_search_space>>
       /\ \A k \in 1..Len(closed_list) : closed_list'[k] = closed_list[k]
       /\ \A k \in 1..Len(open_list) :
             \/ InList(open_list[k], open_list')
             \/ closed_list' = Append(closed_list, open_list[k])
       /\ (algo = "sequential" /\ pc # "start" /\ overall_best' # overall_best)
             => (adopted' /\ overall_best' = current_features' \cup constant_ids)]_vars

\* a step of the sequential search has toggled features of the caller's own,
\* non-empty initial set, which the overall best still names
C12_Witness ==
    /\ algo = "sequential"
    /\ initial_feature_set # None
    /\ initial_set # {}
    /\ "overall_best" \in initial_holders
    /\ \E e \in apply_effects : e.object = "initial_feature_set" /\ e.result # e.before

\* C13: on an evaluation function on which every set with the designated feature
\* beats every set without it and, of two sets that agree on it, the smaller one
\* scores higher, forward selection from the empty set (overshoot 2, epsilon 0) and
\* backward elimination with the default settings return the set of the designated
\* feature alone, with a score above the score of the empty set.
C13_ConvergesToDesignated ==
    <>(/\ pc = "done"
       /\ Returned = {DesignatedFeature}
       /\ ret[2] > SENTINEL)

\* backward elimination has gone from all features down to the designated one and
\* returned after the default overshoot
C13_Witness ==
    /\ pc = "done"
    /\ direction = "backward"
    /\ n_features = ScenarioFeatures
    /\ best_not_changed_in = DefaultOvershoot + 1
    /\ Returned = {DesignatedFeature}

\* the evaluation function of the call: only sets with both features of one pair
\* reach the top score
C14_JointScoring == designated_pairs # {}

\* the two features of the pair score higher, each alone, than every other feature
C14_PairBestAlone ==
    \A P \in designated_pairs : \A f \in P : \A g \in AllFeatures \ P :
        \A x \in scorer[{f}] : \A y \in scorer[{g}] : x > y

\* C14 (as claimed): when only sets with both features of a pair reach the top
\* score, the call with compound operators adopts the pair as best set in strictly
\* fewer outer iterations than the same call without them did.
C14_CompoundStrictlyFewer ==
    (/\ C14_JointScoring
     /\ pc \in {"done", "crash"}
     /\ do_compound_operators
     /\ previous_call # None
     /\ previous_call[1] > 0)
        => (optimum_adopted_at > 0 /\ optimum_adopted_at < previous_call[1])

\* C14 (amended): when, moreover, each feature of the pair scores higher alone than
\* every other feature, the call from the empty set with epsilon 0 adopts the pair
\* in outer iteration 1 with compound operators and in outer iteration 2 without.
C14_CompoundFewerWhenPairBestAlone ==
    (/\ algo = "best_first"
     /\ C14_JointScoring
     /\ C14_PairBestAlone
     /\ initial_set = {}
     /\ epsilon = 0
     /\ pc \in {"done", "crash"})
        => /\ optimum_adopted_at = (IF do_compound_operators THEN 1 ELSE 2)
           /\ previous_call # None => previous_call[1] = 2

\* both calls have ended, the pair being the two best single features among three
C14_Witness ==
    /\ C14_JointScoring
    /\ C14_PairBestAlone
    /\ n_features > 2
    /\ pc \in {"done", "crash"}
    /\ do_compound_operators
    /\ previous_call = <<2>>
    /\ optimum_adopted_at = 1

\* no two entries of list are equal
NoDuplicates(list) == \A i, j \in 1..Len(list) : i # j => list[i] # list[j]

\* C15: in best_first_search no feature set is twice in the open list and the
\* closed list taken together, after every step; a set that is scored is in
\* neither list before, is in the open list after, and a step scores as many sets
\* as it adds to the lists, so no set is scored twice in one search.
C15_ListsDeduplicated ==
    [][algo = "best_first" =>
          /\ NoDuplicates(open_list' \o closed_list')
          /\ \A c \in calls' : /\ ~InList(c[1], open_list \o closed_list)
                               /\ InList(c[1], open_list')
          /\ Cardinality(calls') = Len(open_list' \o closed_list')
                                      - Len(open_list \o closed_list)
                                      - (IF pc = "start" /\ pc' = "loop" /\ initial_set = {}
                                         THEN 1 ELSE 0)]_vars

\* two states are expanded, two are open, and the last expansion scored a child
C15_Witness ==
    /\ algo = "best_first"
    /\ Len(closed_list) >= 2
    /\ Len(open_list) >= 2
    /\ calls # {}

\* the scores the evaluation function can have returned for a state of the search
ScoresOfState(S) ==
    IF S = {} THEN {SENTINEL} ELSE scorer[S] \cup scorer[S \cup constant_ids]

\* C16: open_list and open_scores have the same length and entry i of the scores
\* is the score of state i, after every step; in every outer iteration the state
\* taken from the open list has a score no other open state exceeds, every state
\* before it in the list (inserted earlier) has a smaller score, the states left
\* keep their order, and the state taken is appended to the closed list in that
\* step.
C16_PopsBestEarliest ==
    [][/\ Len(open_scores') = Len(open_list')
       /\ \A i \in 1..Len(open_list') : open_scores'[i] \in ScoresOfState(open_list'[i])
       /\ (algo = "best_first" /\ pc = "loop" /\ pc' \in {"loop", "compound"}) =>
             \E i \in 1..Len(open_list) :
                /\ next_node' = open_list[i]
                /\ \A j \in 1..Len(open_scores) : open_scores[j] <= open_scores[i]
                /\ \A j \in 1..(i - 1) : open_scores[j] < open_scores[i]
                /\ closed_list' = Append(closed_list, open_list[i])
                /\ \A k \in 1..(i - 1) :
                      open_list'[k] = open_list[k] /\ open_scores'[k] = open_scores[k]
                /\ \A k \in (i + 1)..Len(open_list) :
                      /\ open_list'[k - 1] = open_list[k]
                      /\ open_scores'[k - 1] = open_scores[k]]_vars

\* an outer iteration has taken a state that ties with a later open state for the
\* best score, three or more states being open
C16_Witness ==
    /\ algo = "best_first"
    /\ pc \in {"loop", "compound"}
    /\ Len(closed_list) >= 2
    /\ Len(open_list) >= 3
    /\ \E k \in 1..Len(open_list) :
          /\ open_scores[k] \in scorer[next_node]
          /\ \A j \in 1..Len(open_scores) : open_scores[j] <= open_scores[k]

\* C17: the children an outer iteration gets from expand_node for the state it
\* took are the non-empty sets that differ from that state by one feature of the
\* search space (removed from it, or added to it) and are in neither list, each
\* of them once.
C17_ExpandNodeExact ==
    [][(algo = "best_first" /\ pc = "loop" /\ pc' \in {"loop", "compound"}) =>
          LET node == next_node'
              children == SubSeq(open_list', Len(open_list), Len(open_list'))
              one_toggle == {node \ {f} : f \in node \cap search_space}
                            \cup {node \cup {f} : f \in search_space \ node}
          IN  /\ {children[k] : k \in 1..Len(children)} =
                    {S \in one_toggle : /\ S # {}
                                        /\ ~InList(S, open_list)
                                        /\ ~InList(S, closed_list)}
              /\ NoDuplicates(children)]_vars

\* an expansion of a state of two features, of which one child was open already
C17_Witness ==
    /\ algo = "best_first"
    /\ pc \in {"loop", "compound"}
    /\ Cardinality(next_node) = 2
    /\ \E k \in 1..Len(open_list) :
          /\ Cardinality(open_list[k]) = 1
          /\ ~InList(open_list[k], new_children)
          /\ open_list[k] # best_set

\* C18: the float phase is entered only from a step, only with floating search
\* asked for, only when the score after the step exceeds the overall best score
\* held before the iteration, and only with two or more members in the pool
\* (forward: current_features, backward: remaining_features); a step outside the
\* float phase only adds in forward and only removes in backward.
C18_FloatEntry ==
    [][algo = "sequential" =>
          /\ (pc # "float" /\ pc' = "float") =>
                /\ pc = "loop"
                /\ do_floating_search
                /\ score_of_current_set' > overall_best_score
                /\ Cardinality(IF direction = "forward" THEN current_features'
                               ELSE remaining_features') >= 2
          /\ pc = "loop" =>
                /\ direction = "forward" => current_features \subseteq current_features'
                /\ direction = "backward" => current_features' \subseteq current_features]_vars

\* backward elimination has entered the float phase with two features removed
C18_Witness ==
    /\ algo = "sequential"
    /\ pc = "float"
    /\ direction = "backward"
    /\ Cardinality(remaining_features) = 2
    /\ score_of_current_set > overall_best_score

\* C19: a float round scores the current set with each member of the pool
\* toggled except the id the step of this outer iteration toggled; it changes the
\* current set only to a candidate whose score exceeds the local score, which then
\* is the new local score; the toggle of the step is never undone; and the float
\* phase always ends.
C19_FloatRound ==
    /\ [][(algo = "sequential" /\ pc = "float") =>
              /\ {c[1] : c \in calls'} =
                    IF direction = "forward"
                    THEN {current_features \ {i} :
                            i \in current_features \ {just_modified_feature}}
                    ELSE {current_features \cup {i} :
                            i \in remaining_features \ {just_modified_feature}}
              /\ IF current_features' # current_features
                 THEN /\ current_features' \in {c[1] : c \in calls'}
                      /\ score_of_current_set' > score_of_current_set
                 ELSE score_of_current_set' = score_of_current_set
              /\ (just_modified_feature \in current_features') = (direction = "forward")]_vars
    /\ ((pc = "float") ~> (pc # "float"))

\* a second float round after a float toggle that was adopted
C19_Witness ==
    /\ algo = "sequential"
    /\ pc = "float"
    /\ apply_effects # {}
    /\ \E e \in apply_effects : e.result = current_features /\ e.before # e.result

C21_Partition ==
    (algo = "sequential" /\ pc \in {"loop", "float", "done"}) =>
        /\ current_features \cap remaining_features = {}
        /\ current_features \cup remaining_features =
              (IF direction = "forward" THEN search_space ELSE initial_set)
        /\ current_features \cap constant_ids = {}
        /\ remaining_features \cap constant_ids = {}

\* backward elimination from an initial set smaller than the search space has
\* removed a feature
C21_Witness ==
    /\ algo = "sequential"
    /\ pc = "loop"
    /\ direction = "backward"
    /\ initial_set # search_space
    /\ remaining_features # {}
    /\ current_features # initial_set

\* C22: no call of the evaluation function is given an empty feature set: a
\* search that starts from the empty set takes the sentinel score without a call,
\* and no step, float round, expansion or compound round scores an empty set.
C22_NeverScoresEmpty ==
    [][/\ \A c \in calls' : c[2] # {}
       /\ (pc = "start" /\ pc' = "loop" /\ initial_set = {}) =>
             /\ calls' = {}
             /\ ~eval_called'
             /\ algo = "sequential" =>
                   (score_of_current_set' = SENTINEL /\ overall_best_score' = SENTINEL)
             /\ algo = "best_first" =>
                   (score_of_best_set' = SENTINEL /\ open_scores' = <<SENTINEL>>)]_vars

\* a node of one feature was expanded without constant features: its children
\* were scored, the empty one was not
C22_Witness ==
    /\ algo = "best_first"
    /\ pc \in {"loop", "compound"}
    /\ Cardinality(next_node) = 1
    /\ constant_ids = {}
    /\ apply_effects = {}
    /\ calls # {}
    /\ \A c \in calls : InList(c[1], open_list) \/ c[1] = best_set

\* the score of a set under a deterministic evaluation function; the sentinel for
\* the empty set, which is never scored
collaborator_score(S) == IF S = {} THEN SENTINEL ELSE CHOOSE s \in scorer[S] : TRUE

\* C23: with epsilon 0 and a deterministic evaluation function, the score a search
\* returns is at least every score the evaluation function returned during the
\* search, and it is the score of the returned set.
C23_ReturnedScoreIsBest ==
    (pc = "done" /\ epsilon = 0
       /\ \A S \in DOMAIN scorer : Cardinality(scorer[S]) = 1) =>
        /\ ret[2] >= highest_score_returned
        /\ ret[2] = collaborator_score(Returned)

\* C24: a call that leaves out initial_feature_set and feature_search_space, with
\* any constant_feature_ids and otherwise valid arguments, passes the three checks
\* on the resolved sets: it does not end in a configuration error.
C24_DefaultsPassValidation ==
    (/\ algo \in {"sequential", "best_first"}
     /\ data = "ok"
     /\ direction \in {"forward", "backward"}
     /\ initial_feature_set = None
     /\ feature_search_space = None
     /\ pc # "start")
        => (pc # "error" /\ ~sets_inconsistent)

====
